---- MODULE Spec2Model ----
(***************************************************************************)
(* Model of the document retrieval core of StudyMate                       *)
(* (src/embedding_retrieval.py): one EmbeddingRetriever object, the calls  *)
(* its callers make on it, and the values those calls return; and of the   *)
(* text side (src/pdf_processing.py): extraction, cleaning, chunking and   *)
(* the processing of a batch of uploaded files.                            *)
(***************************************************************************)
EXTENDS Integers, Sequences, FiniteSets, TLC

(***************************************************************************)
(* Bounds of the model.                                                    *)
(***************************************************************************)
\* longest chunk list passed to create_embeddings
MaxChunks == 3
\* largest top_k passed to retrieve_relevant_chunks
MaxK == 2
\* most words in a text passed to chunk_text
MaxWords == 6
\* largest chunk_size passed to chunk_text
MaxSize == 3
\* largest overlap passed to chunk_text
MaxOverlap == 4
\* most files in a batch passed to process_uploaded_pdfs
MaxFiles == 3

(***************************************************************************)
(* Texts.  A text is a sequence of characters; " " and the line break are  *)
(* whitespace.                                                             *)
(***************************************************************************)
Space == " "
Newline == "\n"
Whitespace == {Space, Newline}

\* the query strings passed to retrieve_relevant_chunks: the empty string, a
\* whitespace-only string, and one with content after a leading blank
QueryTexts == {<< >>, <<" ">>, <<" ", "a">>}

Min(a, b) == IF a < b THEN a ELSE b

RECURSIVE LStrip(_)
LStrip(s) == IF s # << >> /\ Head(s) \in Whitespace THEN LStrip(Tail(s)) ELSE s

RECURSIVE RStrip(_)
RStrip(s) ==
    IF s # << >> /\ s[Len(s)] \in Whitespace
    THEN RStrip(SubSeq(s, 1, Len(s) - 1))
    ELSE s

\* str.strip()
Strip(s) == RStrip(LStrip(s))

RECURSIVE Count(_, _)
Count(s, c) ==
    IF s = << >> THEN 0
    ELSE (IF Head(s) = c THEN 1 ELSE 0) + Count(Tail(s), c)

\* str.split() from position i on, cur being the word read so far
RECURSIVE SplitFrom(_, _, _)
SplitFrom(s, i, cur) ==
    IF i > Len(s) THEN (IF cur = << >> THEN << >> ELSE <<cur>>)
    ELSE IF s[i] \in Whitespace
    THEN (IF cur = << >> THEN << >> ELSE <<cur>>) \o SplitFrom(s, i + 1, << >>)
    ELSE SplitFrom(s, i + 1, Append(cur, s[i]))

\* str.split(): the maximal runs of non-whitespace characters, in order
Split(s) == SplitFrom(s, 1, << >>)

\* sep.join(parts)
RECURSIVE JoinWith(_, _)
JoinWith(sep, parts) ==
    IF parts = << >> THEN << >>
    ELSE IF Len(parts) = 1 THEN parts[1]
    ELSE parts[1] \o sep \o JoinWith(sep, Tail(parts))

(***************************************************************************)
(* The embedding model: a deterministic map from a text to a vector of     *)
(* fixed dimension (here the counts of the two letters).  It is not        *)
(* injective: two texts with the same letters embed to the same vector.    *)
(***************************************************************************)
EncodeText(t) == <<Count(t, "a"), Count(t, "b")>>

\* model.encode(texts): one row per text, in order
Encode(texts) == [i \in 1..Len(texts) |-> EncodeText(texts[i])]

\* texts = [chunk["text"] for chunk in chunks]
ChunkTextsOf(cs) == [i \in 1..Len(cs) |-> cs[i].text]

\* squared Euclidean distance, the metric of faiss.IndexFlatL2
L2(u, v) == (u[1] - v[1]) * (u[1] - v[1]) + (u[2] - v[2]) * (u[2] - v[2])


(***************************************************************************)
(* Chunk records and the chunk lists the callers ingest: the first n       *)
(* chunks of one of the source documents.  Document 1 reads a b a b ...,   *)
(* document 2 reads b b a b b a ...                                        *)
(***************************************************************************)
Docs == {1, 2}

DocName(d) == IF d = 1 THEN "one.pdf" ELSE "two.pdf"

DocChunkText(d, i) ==
    IF d = 1 THEN (IF i % 2 = 1 THEN <<"a">> ELSE <<"b">>)
    ELSE (IF i % 3 = 0 THEN <<"a">> ELSE <<"b">>)

MkChunk(d, i) == [filename |-> DocName(d), chunk_index |-> i - 1, text |-> DocChunkText(d, i)]

DocChunks(d, n) == [i \in 1..n |-> MkChunk(d, i)]

ChunkLists == {DocChunks(d, n) : d \in Docs, n \in 0..MaxChunks}

\* the chunk texts that occur
ChunkTexts == {DocChunkText(d, i) : d \in Docs, i \in 1..MaxChunks}

\* the largest distance between a query's embedding and a chunk's
MaxDist ==
    CHOOSE d \in {L2(EncodeText(q), EncodeText(t)) : q \in QueryTexts, t \in ChunkTexts} :
        \A q \in QueryTexts, t \in ChunkTexts : L2(EncodeText(q), EncodeText(t)) <= d
\* the distance faiss reports with a missing neighbour (label -1)
FltMax == MaxDist + 1

(***************************************************************************)
(* The retriever's fields.  None is modelled by a flag beside the value.   *)
(***************************************************************************)
NoEmbeddings == [set |-> FALSE, rows |-> << >>]
NoIndex == [built |-> FALSE, rows |-> << >>]

\* self.embeddings = embeddings
ArrayOf(rows) == [set |-> TRUE, rows |-> rows]

\* faiss.IndexFlatL2(dimension): a new index holding no vectors
EmptyIndex == [built |-> TRUE, rows |-> << >>]

\* index.add(embeddings): the rows are appended to those the index holds
IndexAdd(ix, rows) == [built |-> TRUE, rows |-> ix.rows \o rows]

(***************************************************************************)
(* index.search(query_vector, k): the k nearest rows in ascending order of *)
(* distance (ties by row id), padded with label -1 at distance FltMax when *)
(* the index holds fewer than k rows.                                      *)
(***************************************************************************)
Nearer(rows, qv, i, j) ==
    \/ L2(rows[i], qv) < L2(rows[j], qv)
    \/ L2(rows[i], qv) = L2(rows[j], qv) /\ i < j

NthNearest(rows, qv, n) ==
    CHOOSE i \in 1..Len(rows) :
        Cardinality({j \in 1..Len(rows) : Nearer(rows, qv, j, i)}) = n - 1

\* a variant that returns the k farthest rows first (descending distance)
SearchFarthestFirst(rows, qv, k) ==
    [n \in 1..k |->
        IF n <= Len(rows)
        THEN LET i == NthNearest(rows, qv, Len(rows) - n + 1)
             IN  [idx |-> i - 1, distance |-> L2(rows[i], qv)]
        ELSE [idx |-> -1, distance |-> FltMax]]

Search(rows, qv, k) ==
    [n \in 1..k |->
        IF n <= Len(rows)
        THEN LET i == NthNearest(rows, qv, n)
             IN  [idx |-> i - 1, distance |-> L2(rows[i], qv)]
        ELSE [idx |-> -1, distance |-> FltMax]]

\* Python's list[idx]: a negative idx counts from the end of the list
PyIndex(list, idx) == IF idx < 0 THEN list[Len(list) + idx + 1] ELSE list[idx + 1]

\* chunk = self.chunks[idx].copy(); chunk["similarity_score"]; chunk["rank"] = i + 1
MkResult(cs, hit, i) ==
    [similarity_score |-> hit.distance, rank |-> i + 1] @@ PyIndex(cs, hit.idx)

\* if idx < len(self.chunks)
ValidIdx(cs, idx) == idx < Len(cs)

\* the loop of retrieve_relevant_chunks over enumerate(zip(distances[0], indices[0]))
RECURSIVE PrepareResults(_, _, _)
PrepareResults(cs, hits, i) ==
    IF i >= Len(hits) THEN << >>
    ELSE (IF ValidIdx(cs, hits[i + 1].idx)
          THEN <<MkResult(cs, hits[i + 1], i)>>
          ELSE << >>) \o PrepareResults(cs, hits, i + 1)

\* the neighbours asked of the index: min(top_k, len(self.chunks))
SearchK(cs, k) == Min(k, Len(cs))

\* if self.index is None or len(self.chunks) == 0
NothingToSearch(cs, ix) == ~ix.built \/ Len(cs) = 0

\* a variant that embeds the query before it looks for an index
RetrieveOutcomeEncodeFirst(cs, ix, q, k, fails) ==
    IF Strip(q) = << >>
    THEN [results |-> << >>, encodeCalls |-> 0, failed |-> FALSE]
    ELSE IF fails
    THEN [results |-> << >>, encodeCalls |-> 1, failed |-> TRUE]
    ELSE IF NothingToSearch(cs, ix)
    THEN [results |-> << >>, encodeCalls |-> 1, failed |-> FALSE]
    ELSE [results |-> PrepareResults(cs, Search(ix.rows, EncodeText(q), SearchK(cs, k)), 0),
          encodeCalls |-> 1, failed |-> FALSE]

\* retrieve_relevant_chunks: the list returned, the number of model.encode calls
\* made, and whether the except clause was taken.  fails: the query's encode or
\* the index search raises inside the try block.
RetrieveOutcome(cs, ix, q, k, fails) ==
    IF Strip(q) = << >>
    THEN [results |-> << >>, encodeCalls |-> 0, failed |-> FALSE]
    ELSE IF NothingToSearch(cs, ix)
    THEN [results |-> << >>, encodeCalls |-> 0, failed |-> FALSE]
    ELSE IF fails
    THEN [results |-> << >>, encodeCalls |-> 1, failed |-> TRUE]
    ELSE [results |-> PrepareResults(cs, Search(ix.rows, EncodeText(q), SearchK(cs, k)), 0),
          encodeCalls |-> 1, failed |-> FALSE]

\* the list retrieve_relevant_chunks returns when nothing raises
Retrieved(cs, ix, q, k) == RetrieveOutcome(cs, ix, q, k, FALSE).results

(***************************************************************************)
(* State.                                                                  *)
(***************************************************************************)
Callers == {1, 2}

VARIABLES
    chunks,      \* self.chunks
    embeddings,  \* self.embeddings
    index,       \* self.index
    pc,          \* pc[c]: where caller c stands in its ingest
    req,         \* req[c]: the chunk list caller c passed to create_embeddings
    loc,         \* loc[c]: the array create_embeddings returned to caller c
    pre,         \* pre[c]: what the retriever held when c's create_embeddings began
    ok,          \* ok[c]: caller c's last ingest ran to the end without raising
    ret          \* what the most recent call returned

\* chunk_text: its arguments, its locals and the list it returns
VARIABLES
    text,         \* the text argument
    chunk_size,   \* the chunk_size argument
    overlap,      \* the overlap argument
    words,        \* words = text.split()
    start,        \* start
    text_chunks,  \* the list chunks, which is what the call returns
    starts,       \* the value of start at each window taken so far
    tpc           \* "idle", "call", "loop" (at the while test) or "returned"

textVars == <<text, chunk_size, overlap, words, start, text_chunks, starts, tpc>>

\* process_uploaded_pdfs: its argument, its locals and what it returns
VARIABLES
    uploaded_files,      \* the uploaded_files argument
    file_idx,            \* file_idx of the file the for loop takes next
    all_chunks,          \* all_chunks
    processing_results,  \* processing_results
    returned,            \* the value returned
    bpc                  \* "idle", "loop" (at the head of the for loop) or "returned"

batchVars == <<uploaded_files, file_idx, all_chunks, processing_results, returned, bpc>>

\* extract_text_from_pdf: its argument, its locals and what it returns
VARIABLES
    pdf_file,      \* the pdf_file argument
    page_num,      \* page_num of the page the for loop is at
    page_text,     \* text
    tried,         \* the get_text methods called for this page so far
    pages_log,     \* for each page done: the methods called and the text they left
    text_content,  \* text_content
    extracted,     \* the value returned
    epc            \* "idle", "page" (inside the for loop) or "returned"

extractVars == <<pdf_file, page_num, page_text, tried, pages_log, text_content, extracted, epc>>

pdfVars == <<textVars, batchVars, extractVars>>

\* the Streamlit session that owns the retriever
VARIABLES
    session_chunks,  \* st.session_state.chunks
    aliased          \* self.chunks is the list object st.session_state.chunks names

sessionVars == <<session_chunks, aliased>>

retrieverVars == <<chunks, embeddings, index, pc, req, loc, pre, ok, ret>>

vars == <<retrieverVars, pdfVars, sessionVars>>

\* the rows an index over the chunk list cs holds, row i for cs[i]
RowsFor(cs) == [i \in 1..Len(cs) |-> EncodeText(cs[i].text)]

\* the retriever as a caller finds it: Empty (nothing to search), Ready (every
\* chunk indexed at its own row and no ingest under way), or neither
Held ==
    IF ~index.built \/ chunks = << >> THEN "empty"
    ELSE IF index.rows = RowsFor(chunks) /\ \A c \in Callers : pc[c] \in {"idle", "done"}
    THEN "ready"
    ELSE "partial"

NoStats == [total_chunks |-> 0, index_built |-> FALSE, has_dimension |-> FALSE,
            index_size |-> 0]

NoRet == [op |-> "none", raised |-> FALSE, failed |-> FALSE,
          ingest |-> FALSE, query |-> << >>, top_k |-> 0, results |-> << >>,
          encodeCalls |-> 0, stats |-> NoStats, context |-> << >>]

\* EmbeddingRetriever.__init__
NewRetriever ==
    /\ chunks = << >>
    /\ embeddings = NoEmbeddings
    /\ index = NoIndex
    /\ pc = [c \in Callers |-> "idle"]
    /\ req = [c \in Callers |-> << >>]
    /\ loc = [c \in Callers |-> << >>]
    /\ pre = [c \in Callers |-> "empty"]
    /\ ok = [c \in Callers |-> FALSE]
    /\ ret = NoRet

\* no chunk_text call and no process_uploaded_pdfs call is under way
TextIdle ==
    /\ text = << >> /\ chunk_size = 0 /\ overlap = 0 /\ words = << >>
    /\ start = 0 /\ text_chunks = << >> /\ starts = << >> /\ tpc = "idle"

BatchIdle ==
    /\ uploaded_files = << >> /\ file_idx = 0 /\ all_chunks = << >>
    /\ processing_results = << >> /\ returned = << >> /\ bpc = "idle"

\* no extract_text_from_pdf call is under way
ExtractIdle ==
    /\ pdf_file = [size |-> 0, opens |-> FALSE, pages |-> << >>] /\ page_num = 0
    /\ page_text = << >> /\ tried = << >> /\ pages_log = << >>
    /\ text_content = << >> /\ extracted = << >> /\ epc = "idle"

\* st.session_state.chunks = []
SessionIdle == session_chunks = << >> /\ aliased = FALSE

\* a retriever just constructed, and nothing else under way
Init == NewRetriever /\ TextIdle /\ BatchIdle /\ ExtractIdle /\ SessionIdle

(***************************************************************************)
(* create_embeddings, as one call.                                         *)
(***************************************************************************)
\* a variant that accumulates: self.chunks = self.chunks + chunks
StoredChunksAppended(c) == chunks \o c

\* self.chunks = chunks
StoredChunks(c) == c

\* the array model.encode returns for the chunk list c
EmbeddingsOf(c) == Encode(ChunkTextsOf(c))

CreateEmbeddings(w, c, fails) ==
    /\ UNCHANGED <<pdfVars, sessionVars>>
    /\ pc[w] \in {"idle", "created"}
    /\ req' = [req EXCEPT ![w] = c]
    /\ pre' = [pre EXCEPT ![w] = Held]
    /\ ok' = [ok EXCEPT ![w] = FALSE]
    /\ UNCHANGED index
    /\ IF c = << >>
       THEN \* return np.array([])
            /\ UNCHANGED <<chunks, embeddings>>
            /\ loc' = [loc EXCEPT ![w] = << >>]
            /\ pc' = [pc EXCEPT ![w] = "created"]
            /\ ret' = [NoRet EXCEPT !.op = "create_embeddings"]
       ELSE /\ chunks' = StoredChunks(c)
            /\ IF fails
               THEN \* model.encode raises: logged and raised again
                    /\ UNCHANGED embeddings
                    /\ loc' = [loc EXCEPT ![w] = << >>]
                    /\ pc' = [pc EXCEPT ![w] = "idle"]
                    /\ ret' = [NoRet EXCEPT !.op = "create_embeddings", !.raised = TRUE]
               ELSE /\ embeddings' = ArrayOf(EmbeddingsOf(c))
                    /\ loc' = [loc EXCEPT ![w] = EmbeddingsOf(c)]
                    /\ pc' = [pc EXCEPT ![w] = "created"]
                    /\ ret' = [NoRet EXCEPT !.op = "create_embeddings"]

(***************************************************************************)
(* build_faiss_index, as one call.  A caller that holds the array          *)
(* create_embeddings returned passes it; otherwise the argument is None    *)
(* and self.embeddings is used.  failAt: where the try block raises.       *)
(***************************************************************************)
BuildArg(w) == IF pc[w] = "created" THEN ArrayOf(loc[w]) ELSE embeddings

\* if embeddings is None or len(embeddings) == 0
NoEmbeddingsAvailable(arg) == ~arg.set \/ Len(arg.rows) = 0

\* a variant that keeps the index it has and adds to it
NewIndexKept == IF index.built THEN index ELSE EmptyIndex

\* self.index = faiss.IndexFlatL2(dimension)
NewIndex == EmptyIndex

BuildFaissIndex(w, failAt) ==
    /\ UNCHANGED <<pdfVars, sessionVars>>
    /\ pc[w] \in {"idle", "created"}
    /\ pc' = [pc EXCEPT ![w] = "idle"]
    /\ loc' = [loc EXCEPT ![w] = << >>]
    /\ UNCHANGED <<chunks, embeddings, req, pre>>
    /\ IF NoEmbeddingsAvailable(BuildArg(w))
       THEN \* logged as an error; returns
            /\ UNCHANGED index
            /\ ok' = [ok EXCEPT ![w] = (pc[w] = "created")]
            /\ ret' = [NoRet EXCEPT !.op = "build_faiss_index",
                                    !.ingest = (pc[w] = "created")]
       ELSE CASE failAt = "new" ->
                    /\ UNCHANGED index
                    /\ ok' = [ok EXCEPT ![w] = FALSE]
                    /\ ret' = [NoRet EXCEPT !.op = "build_faiss_index", !.raised = TRUE]
              [] failAt = "add" ->
                    /\ index' = NewIndex
                    /\ ok' = [ok EXCEPT ![w] = FALSE]
                    /\ ret' = [NoRet EXCEPT !.op = "build_faiss_index", !.raised = TRUE]
              [] OTHER ->
                    /\ index' = IndexAdd(NewIndex, BuildArg(w).rows)
                    /\ ok' = [ok EXCEPT ![w] = (pc[w] = "created")]
                    /\ ret' = [NoRet EXCEPT !.op = "build_faiss_index",
                                            !.ingest = (pc[w] = "created")]

(***************************************************************************)
(* retrieve_relevant_chunks.  fails: the query's encode or the index       *)
(* search raises inside the try block; the except clause returns [].       *)
(***************************************************************************)
\* a variant that answers a repeated query text from the previous call's list
RetrieveRelevantChunksCached(q, k, fails) ==
    /\ UNCHANGED <<pdfVars, sessionVars>>
    /\ UNCHANGED <<chunks, embeddings, index, pc, req, loc, pre, ok>>
    /\ LET again == ret.op = "retrieve_relevant_chunks" /\ ret.query = q
           out == IF again
                  THEN [results |-> ret.results, encodeCalls |-> 0, failed |-> FALSE]
                  ELSE RetrieveOutcome(chunks, index, q, k, fails)
       IN  ret' = [NoRet EXCEPT
                     !.op = "retrieve_relevant_chunks",
                     !.query = q,
                     !.top_k = k,
                     !.encodeCalls = out.encodeCalls,
                     !.failed = out.failed,
                     !.results = out.results]

\* a variant without the copy: chunk = self.chunks[idx], so that the score and
\* the rank are written into the stored chunk
RetrieveRelevantChunksInPlace(q, k, fails) ==
    /\ UNCHANGED <<pdfVars, sessionVars>>
    /\ UNCHANGED <<embeddings, index, pc, req, loc, pre, ok>>
    /\ LET out == RetrieveOutcome(chunks, index, q, k, fails)
           Hits(p) == {i \in 1..Len(out.results) :
                          /\ out.results[i].filename = chunks[p].filename
                          /\ out.results[i].chunk_index = chunks[p].chunk_index}
       IN  /\ chunks' = [p \in 1..Len(chunks) |->
                            IF Hits(p) = {} THEN chunks[p]
                            ELSE out.results[CHOOSE i \in Hits(p) : TRUE]]
           /\ ret' = [NoRet EXCEPT
                         !.op = "retrieve_relevant_chunks",
                         !.query = q,
                         !.top_k = k,
                         !.encodeCalls = out.encodeCalls,
                         !.failed = out.failed,
                         !.results = out.results]

RetrieveRelevantChunks(q, k, fails) ==
    /\ UNCHANGED <<pdfVars, sessionVars>>
    /\ UNCHANGED <<chunks, embeddings, index, pc, req, loc, pre, ok>>
    /\ LET out == RetrieveOutcome(chunks, index, q, k, fails)
       IN  ret' = [NoRet EXCEPT
                     !.op = "retrieve_relevant_chunks",
                     !.query = q,
                     !.top_k = k,
                     !.encodeCalls = out.encodeCalls,
                     !.failed = out.failed,
                     !.results = out.results]

\* get_retrieval_stats
StatsOf(cs, em, ix) ==
    [total_chunks |-> Len(cs),
     index_built |-> ix.built,
     has_dimension |-> em.set,
     index_size |-> IF ix.built THEN Len(ix.rows) ELSE 0]

GetRetrievalStats ==
    /\ UNCHANGED <<pdfVars, sessionVars>>
    /\ UNCHANGED <<chunks, embeddings, index, pc, req, loc, pre, ok>>
    /\ ret' = [NoRet EXCEPT !.op = "get_retrieval_stats",
                            !.stats = StatsOf(chunks, embeddings, index)]

(***************************************************************************)
(* initialize_retrieval_system: a new retriever is constructed, the chunks *)
(* are embedded and indexed on it, and the caller stores the returned      *)
(* object as its retriever (st.session_state.retriever = ...).  When a     *)
(* step raises nothing is returned and the caller keeps the retriever it   *)
(* had.                                                                    *)
(***************************************************************************)
\* the retriever the caller holds after initialize_retrieval_system(c)
InitializeRetriever(c, fails) ==
    IF fails /\ c # << >>
    THEN /\ UNCHANGED <<chunks, embeddings, index, pc, req, loc, pre, ok>>
         /\ ret' = [NoRet EXCEPT !.op = "initialize_retrieval_system", !.raised = TRUE]
    ELSE /\ chunks' = StoredChunks(c)
         /\ embeddings' = IF c = << >> THEN NoEmbeddings
                                       ELSE ArrayOf(EmbeddingsOf(c))
         /\ index' = IF c = << >> THEN NoIndex
                                  ELSE IndexAdd(NewIndex, EmbeddingsOf(c))
         /\ pc' = [pc EXCEPT ![1] = "idle"]
         /\ req' = [req EXCEPT ![1] = c]
         /\ loc' = [loc EXCEPT ![1] = << >>]
         /\ pre' = [pre EXCEPT ![1] = "empty"]
         /\ ok' = [ok EXCEPT ![1] = TRUE]
         /\ ret' = [NoRet EXCEPT !.op = "initialize_retrieval_system", !.ingest = TRUE]

InitializeRetrievalSystem(c, fails) ==
    /\ UNCHANGED <<pdfVars, sessionVars>>
    /\ pc[1] \in {"idle", "created"}
    /\ InitializeRetriever(c, fails)

(***************************************************************************)
(* The retriever used by one caller, one call at a time.                   *)
(***************************************************************************)
Next ==
    \/ \E c \in ChunkLists, f \in BOOLEAN : CreateEmbeddings(1, c, f)
    \/ \E at \in {"none", "new", "add"} : BuildFaissIndex(1, at)
    \/ \E q \in QueryTexts, k \in 1..MaxK, f \in BOOLEAN : RetrieveRelevantChunks(q, k, f)
    \/ GetRetrievalStats
    \/ \E c \in ChunkLists, f \in BOOLEAN : InitializeRetrievalSystem(c, f)

Spec == Init /\ [][Next]_vars

(***************************************************************************)
(* The same calls taken a statement at a time, for callers that share the  *)
(* retriever with no lock between them.  Each caller runs one ingest of    *)
(* its own document: create_embeddings, then build_faiss_index with the    *)
(* array returned.                                                         *)
(***************************************************************************)
\* create_embeddings up to self.chunks = chunks
BeginCreate(w, c) ==
    /\ UNCHANGED <<pdfVars, sessionVars>>
    /\ pc[w] = "idle"
    /\ req' = [req EXCEPT ![w] = c]
    /\ pre' = [pre EXCEPT ![w] = Held]
    /\ ok' = [ok EXCEPT ![w] = FALSE]
    /\ IF c = << >>
       THEN /\ pc' = [pc EXCEPT ![w] = "created"]
            /\ UNCHANGED chunks
       ELSE /\ pc' = [pc EXCEPT ![w] = "encoding"]
            /\ chunks' = StoredChunks(c)
    /\ ret' = NoRet
    /\ UNCHANGED <<embeddings, index, loc>>

\* model.encode, self.embeddings = embeddings, return embeddings
EncodeChunks(w, fails) ==
    /\ UNCHANGED <<pdfVars, sessionVars>>
    /\ pc[w] = "encoding"
    /\ IF fails
       THEN /\ pc' = [pc EXCEPT ![w] = "done"]
            /\ ret' = [NoRet EXCEPT !.op = "create_embeddings", !.raised = TRUE]
            /\ UNCHANGED <<embeddings, loc>>
       ELSE /\ pc' = [pc EXCEPT ![w] = "created"]
            /\ embeddings' = ArrayOf(EmbeddingsOf(req[w]))
            /\ loc' = [loc EXCEPT ![w] = EmbeddingsOf(req[w])]
            /\ ret' = [NoRet EXCEPT !.op = "create_embeddings"]
    /\ UNCHANGED <<chunks, index, req, pre, ok>>

\* build_faiss_index up to self.index = faiss.IndexFlatL2(dimension)
BeginBuild(w, fails) ==
    /\ UNCHANGED <<pdfVars, sessionVars>>
    /\ pc[w] = "created"
    /\ IF NoEmbeddingsAvailable(BuildArg(w))
       THEN /\ pc' = [pc EXCEPT ![w] = "done"]
            /\ ok' = [ok EXCEPT ![w] = TRUE]
            /\ ret' = [NoRet EXCEPT !.op = "build_faiss_index", !.ingest = TRUE]
            /\ UNCHANGED index
       ELSE IF fails
       THEN /\ pc' = [pc EXCEPT ![w] = "done"]
            /\ ret' = [NoRet EXCEPT !.op = "build_faiss_index", !.raised = TRUE]
            /\ UNCHANGED <<index, ok>>
       ELSE /\ pc' = [pc EXCEPT ![w] = "adding"]
            /\ index' = NewIndex
            /\ ret' = NoRet
            /\ UNCHANGED ok
    /\ UNCHANGED <<chunks, embeddings, req, loc, pre>>

\* self.index.add(embeddings): self.index is read again here
AddToIndex(w, fails) ==
    /\ UNCHANGED <<pdfVars, sessionVars>>
    /\ pc[w] = "adding"
    /\ pc' = [pc EXCEPT ![w] = "done"]
    /\ IF fails
       THEN /\ ret' = [NoRet EXCEPT !.op = "build_faiss_index", !.raised = TRUE]
            /\ UNCHANGED <<index, ok>>
       ELSE /\ index' = IndexAdd(index, loc[w])
            /\ ok' = [ok EXCEPT ![w] = TRUE]
            /\ ret' = [NoRet EXCEPT !.op = "build_faiss_index", !.ingest = TRUE]
    /\ UNCHANGED <<chunks, embeddings, req, loc, pre>>

\* the chunk lists caller w ingests
ListsOf(w) == {DocChunks(w, n) : n \in 0..MaxChunks}

NextConc ==
    \/ \E w \in Callers : \E c \in ListsOf(w) : BeginCreate(w, c)
    \/ \E w \in Callers, f \in BOOLEAN : EncodeChunks(w, f)
    \/ \E w \in Callers, f \in BOOLEAN : BeginBuild(w, f)
    \/ \E w \in Callers, f \in BOOLEAN : AddToIndex(w, f)
    \/ \E q \in QueryTexts, k \in 1..MaxK, f \in BOOLEAN : RetrieveRelevantChunks(q, k, f)
    \/ GetRetrievalStats

SpecConc == Init /\ [][NextConc]_vars

(***************************************************************************)
(* chunk_text.  The texts passed to it: n words, word i being the i-th     *)
(* letter, separated by one or two blanks, with or without a blank before  *)
(* the first word and after the last.  n = 0 gives the empty text and the  *)
(* whitespace-only texts.                                                  *)
(***************************************************************************)
Alphabet == <<"a", "b", "c", "d", "e", "f", "g", "h">>

WordAt(i) == <<Alphabet[((i - 1) % Len(Alphabet)) + 1]>>

Blanks(n) == [i \in 1..n |-> Space]

TextOf(n, gap, lead, trail) ==
    (IF lead THEN <<Space>> ELSE << >>)
        \o JoinWith(Blanks(gap), [i \in 1..n |-> WordAt(i)])
        \o (IF trail THEN <<Space>> ELSE << >>)

Texts == {TextOf(n, gap, lead, trail) :
              n \in 0..MaxWords, gap \in {1, 2}, lead \in BOOLEAN, trail \in BOOLEAN}

\* end = min(start + chunk_size, len(words))
WindowEnd(st, size, ws) == Min(st + size, Len(ws))

\* a variant that leaves out the last word of the window: words[start:end - 1]
WindowTextShort(ws, st, en) == JoinWith(<<Space>>, SubSeq(ws, st + 1, en - 1))

\* chunk_text = ' '.join(words[start:end])
WindowText(ws, st, en) == JoinWith(<<Space>>, SubSeq(ws, st + 1, en))

\* if chunk_text.strip(): chunks.append(chunk_text.strip())
KeptChunk(c) == IF Strip(c) # << >> THEN <<Strip(c)>> ELSE << >>

\* a variant that starts the next window where the last one ended
NextStartNoOverlap(en, ov) == en

\* a variant that starts the next window one word further on
NextStartOneFurther(en, ov) == (IF en - ov <= 0 THEN en ELSE en - ov) + 1

\* start = end - overlap; if start <= 0: start = end
NextStart(en, ov) == IF en - ov <= 0 THEN en ELSE en - ov

\* the windows a loop that cannot end takes before the model stops following it:
\* a loop that ends takes each start position once, so at most len(words) windows
MaxWindows == MaxWords + 1

\* chunk_text up to the while loop: the two early returns
ChunkTextBegin ==
    /\ tpc = "call"
    /\ UNCHANGED <<retrieverVars, batchVars, extractVars, sessionVars>>
    /\ UNCHANGED <<text, chunk_size, overlap, starts>>
    /\ IF text = << >>
       THEN \* if not text: return []
            /\ tpc' = "returned"
            /\ text_chunks' = << >>
            /\ UNCHANGED <<words, start>>
       ELSE /\ words' = Split(text)
            /\ start' = 0
            /\ IF Len(Split(text)) <= chunk_size
               THEN \* return [text]
                    /\ tpc' = "returned"
                    /\ text_chunks' = <<text>>
               ELSE /\ tpc' = "loop"
                    /\ text_chunks' = << >>

\* one pass of the while loop
ChunkTextWindow ==
    /\ tpc = "loop"
    /\ Len(starts) < MaxWindows
    /\ UNCHANGED <<retrieverVars, batchVars, extractVars, sessionVars>>
    /\ UNCHANGED <<text, chunk_size, overlap, words>>
    /\ IF start >= Len(words)
       THEN /\ tpc' = "returned"
            /\ UNCHANGED <<start, text_chunks, starts>>
       ELSE LET end == WindowEnd(start, chunk_size, words)
            IN  /\ text_chunks' = text_chunks \o KeptChunk(WindowText(words, start, end))
                /\ starts' = Append(starts, start)
                /\ IF end >= Len(words)
                   THEN \* break
                        /\ tpc' = "returned"
                        /\ UNCHANGED start
                   ELSE /\ tpc' = "loop"
                        /\ start' = NextStart(end, overlap)

\* chunk_text(t, size, ov) is called
ChunkTextCall(t, size, ov) ==
    /\ tpc = "idle"
    /\ UNCHANGED <<retrieverVars, batchVars, extractVars, sessionVars>>
    /\ text' = t
    /\ chunk_size' = size
    /\ overlap' = ov
    /\ tpc' = "call"
    /\ UNCHANGED <<words, start, text_chunks, starts>>

NextChunk ==
    \/ \E t \in Texts, size \in 1..MaxSize, ov \in 0..MaxOverlap : ChunkTextCall(t, size, ov)
    \/ ChunkTextBegin
    \/ ChunkTextWindow

\* a call once made runs on: the function takes its next step whenever it can
SpecChunk ==
    Init /\ [][NextChunk]_vars /\ WF_vars(ChunkTextBegin) /\ WF_vars(ChunkTextWindow)

(***************************************************************************)
(* chunk_text as a function, for the callers that use what it returns.     *)
(***************************************************************************)
\* chunk_size: int = 500
DefaultChunkSize == 500
\* overlap: int = 100
DefaultOverlap == 100

\* the while loop from the window that starts at st on
RECURSIVE SlideWindows(_, _, _, _)
SlideWindows(ws, size, ov, st) ==
    IF st >= Len(ws) THEN << >>
    ELSE KeptChunk(WindowText(ws, st, WindowEnd(st, size, ws)))
            \o (IF WindowEnd(st, size, ws) >= Len(ws) THEN << >>
                ELSE SlideWindows(ws, size, ov, NextStart(WindowEnd(st, size, ws), ov)))

\* chunk_text(t, size, ov), for overlap < chunk_size
ChunkText(t, size, ov) ==
    IF t = << >> THEN << >>
    ELSE IF Len(Split(t)) <= size THEN <<t>>
    ELSE SlideWindows(Split(t), size, ov, 0)

(***************************************************************************)
(* clean_text, for the one-line texts of the pages below: runs of blanks   *)
(* become one blank, a line that is a page number goes, the ends are       *)
(* stripped.  (The patterns for URLs, e-mail addresses, 'Page n' lines and *)
(* runs of punctuation match none of these texts.)                         *)
(***************************************************************************)
Digits == {"0", "1", "2", "3", "4", "5", "6", "7", "8", "9"}

\* re.sub(r'[ \t]+', ' ', text)
RECURSIVE CollapseBlanks(_)
CollapseBlanks(t) ==
    IF Len(t) < 2 THEN t
    ELSE IF t[1] = Space /\ t[2] = Space THEN CollapseBlanks(Tail(t))
    ELSE <<t[1]>> \o CollapseBlanks(Tail(t))

\* the line matches ^\d+\s*$
IsPageNumberLine(t) ==
    /\ RStrip(t) # << >>
    /\ \A i \in 1..Len(RStrip(t)) : RStrip(t)[i] \in Digits

\* re.sub(r'^\d+\s*$', '', text, flags=re.MULTILINE)
DropPageNumber(t) == IF IsPageNumberLine(t) THEN << >> ELSE t

CleanText(t) ==
    IF t = << >> THEN << >>
    ELSE Strip(DropPageNumber(CollapseBlanks(t)))

(***************************************************************************)
(* Uploaded files.  A page is what the three extraction methods give for   *)
(* it: get_text("text"), the text extract_text_from_dict makes of          *)
(* get_text("dict"), and the non-blank blocks of get_text("blocks") joined *)
(* by line breaks.                                                         *)
(***************************************************************************)
PageTextLayer == [text |-> <<"a", " ", " ", "b">>, dict |-> <<"c">>, blocks |-> <<"d">>]
PageDictOnly == [text |-> <<" ">>, dict |-> <<"c">>, blocks |-> <<"d">>]
PageBlocksOnly == [text |-> << >>, dict |-> << >>, blocks |-> <<"d">>]
PageBlank == [text |-> << >>, dict |-> <<" ">>, blocks |-> << >>]
PageNumberOnly == [text |-> <<"7", " ">>, dict |-> <<"c">>, blocks |-> << >>]

\* the files of a batch: a text file, a zero-byte PDF, a PDF fitz cannot open,
\* a scanned PDF (no page has text), and two PDFs with text
NotPdfFile == [name |-> [stem |-> "notes", ext |-> ".txt"], size |-> 1, opens |-> FALSE,
               pages |-> << >>]
ZeroByteFile == [name |-> [stem |-> "zero", ext |-> ".pdf"], size |-> 0, opens |-> FALSE,
                 pages |-> << >>]
UnparseableFile == [name |-> [stem |-> "broken", ext |-> ".pdf"], size |-> 1, opens |-> FALSE,
                    pages |-> << >>]
ScannedFile == [name |-> [stem |-> "scan", ext |-> ".pdf"], size |-> 1, opens |-> TRUE,
                pages |-> <<PageBlank, PageNumberOnly>>]
GoodFile == [name |-> [stem |-> "one", ext |-> ".pdf"], size |-> 1, opens |-> TRUE,
             pages |-> <<PageTextLayer>>]
GoodUpperFile == [name |-> [stem |-> "two", ext |-> ".PDF"], size |-> 1, opens |-> TRUE,
                  pages |-> <<PageDictOnly, PageBlank, PageBlocksOnly>>]

Files == {NotPdfFile, ZeroByteFile, UnparseableFile, ScannedFile, GoodFile, GoodUpperFile}

\* the batches passed to process_uploaded_pdfs
Batches == UNION {[1..n -> Files] : n \in 0..MaxFiles}

(***************************************************************************)
(* extract_text_from_pdf.                                                  *)
(***************************************************************************)
\* the message returned when no page has text
NoTextMessage ==
    <<"N", "o", " ", "t", "e", "x", "t", " ", "c", "o", "n", "t", "e", "n", "t", " ",
      "c", "o", "u", "l", "d", " ", "b", "e", " ", "e", "x", "t", "r", "a", "c", "t", "e", "d">>

\* text = page.get_text("text"), then the dict method, then the blocks method,
\* each tried only if not text.strip()
PageText(page) ==
    IF Strip(page.text) # << >> THEN page.text
    ELSE IF Strip(page.dict) # << >> THEN page.dict
    ELSE page.blocks

\* what the page adds to text_content
PageContent(page) ==
    IF Strip(PageText(page)) # << >> /\ CleanText(PageText(page)) # << >>
    THEN <<CleanText(PageText(page))>>
    ELSE << >>

\* text_content after the loop over the pages
RECURSIVE TextContent(_)
TextContent(pages) ==
    IF pages = << >> THEN << >>
    ELSE PageContent(Head(pages)) \o TextContent(Tail(pages))

\* if len(full_text.strip()) == 0: return the message; return full_text
ExtractedOrMessage(full) == IF Len(Strip(full)) = 0 THEN NoTextMessage ELSE full

ExtractTextFromPdf(f) ==
    IF f.size = 0 THEN << >>
    ELSE IF ~f.opens THEN << >>   \* fitz.open raises: except ... return ""
    ELSE ExtractedOrMessage(JoinWith(<<Newline, Newline>>, TextContent(f.pages)))

(***************************************************************************)
(* extract_text_from_pdf, one get_text call at a time.                     *)
(***************************************************************************)
\* the most pages of a document
MaxPages == 3

Pages == {PageTextLayer, PageDictOnly, PageBlocksOnly, PageBlank, PageNumberOnly}

\* the documents passed to extract_text_from_pdf: a zero-byte file, one fitz
\* cannot open, and the documents of up to MaxPages pages
PdfFiles ==
    {[size |-> 0, opens |-> FALSE, pages |-> << >>],
     [size |-> 1, opens |-> FALSE, pages |-> << >>]}
    \cup {[size |-> 1, opens |-> TRUE, pages |-> ps] :
            ps \in UNION {[1..n -> Pages] : n \in 0..MaxPages}}

\* a variant that goes on to the next method whatever the text is
NoTextFoundAlways(t) == TRUE

\* if not text.strip()
NoTextFound(t) == Strip(t) = << >>

\* extract_text_from_pdf(pdf_file) is called: the size test and fitz.open
ExtractCall(f) ==
    /\ epc = "idle"
    /\ UNCHANGED <<retrieverVars, textVars, batchVars, sessionVars>>
    /\ pdf_file' = f
    /\ page_num' = 0
    /\ UNCHANGED <<page_text, tried, pages_log, text_content>>
    /\ IF f.size = 0 \/ ~f.opens
       THEN extracted' = << >> /\ epc' = "returned"
       ELSE UNCHANGED extracted /\ epc' = "page"

\* Method 1: text = page.get_text("text")
TryTextLayer ==
    /\ epc = "page"
    /\ page_num < Len(pdf_file.pages)
    /\ tried = << >>
    /\ UNCHANGED <<retrieverVars, textVars, batchVars, sessionVars>>
    /\ page_text' = pdf_file.pages[page_num + 1].text
    /\ tried' = <<"text">>
    /\ UNCHANGED <<pdf_file, page_num, pages_log, text_content, extracted, epc>>

\* Method 2: text = extract_text_from_dict(page.get_text("dict"))
TryDict ==
    /\ epc = "page"
    /\ tried = <<"text">>
    /\ NoTextFound(page_text)
    /\ UNCHANGED <<retrieverVars, textVars, batchVars, sessionVars>>
    /\ page_text' = pdf_file.pages[page_num + 1].dict
    /\ tried' = <<"text", "dict">>
    /\ UNCHANGED <<pdf_file, page_num, pages_log, text_content, extracted, epc>>

\* Method 3: text = "\\n".join of the non-blank blocks of page.get_text("blocks")
TryBlocks ==
    /\ epc = "page"
    /\ tried = <<"text", "dict">>
    /\ NoTextFound(page_text)
    /\ UNCHANGED <<retrieverVars, textVars, batchVars, sessionVars>>
    /\ page_text' = pdf_file.pages[page_num + 1].blocks
    /\ tried' = <<"text", "dict", "blocks">>
    /\ UNCHANGED <<pdf_file, page_num, pages_log, text_content, extracted, epc>>

\* the rest of the loop body: a page with text is cleaned and, if something
\* is left of it, appended
PageDone ==
    /\ epc = "page"
    /\ tried # << >>
    /\ Len(tried) = 3 \/ ~NoTextFound(page_text)
    /\ UNCHANGED <<retrieverVars, textVars, batchVars, sessionVars>>
    /\ text_content' =
           IF Strip(page_text) # << >> /\ CleanText(page_text) # << >>
           THEN Append(text_content, CleanText(page_text))
           ELSE text_content
    /\ pages_log' = Append(pages_log, [methods |-> tried, text |-> page_text])
    /\ page_num' = page_num + 1
    /\ tried' = << >>
    /\ page_text' = << >>
    /\ UNCHANGED <<pdf_file, extracted, epc>>

\* after the loop: full_text is text_content joined by blank lines, or the message
ExtractReturn ==
    /\ epc = "page"
    /\ page_num = Len(pdf_file.pages)
    /\ UNCHANGED <<retrieverVars, textVars, batchVars, sessionVars>>
    /\ extracted' = ExtractedOrMessage(JoinWith(<<Newline, Newline>>, text_content))
    /\ epc' = "returned"
    /\ UNCHANGED <<pdf_file, page_num, page_text, tried, pages_log, text_content>>

NextExtract ==
    \/ \E f \in PdfFiles : ExtractCall(f)
    \/ TryTextLayer
    \/ TryDict
    \/ TryBlocks
    \/ PageDone
    \/ ExtractReturn

SpecExtract == Init /\ [][NextExtract]_vars

(***************************************************************************)
(* process_uploaded_pdfs.                                                  *)
(***************************************************************************)
\* str.lower() of a file name's extension
Lower(ext) == IF ext = ".PDF" THEN ".pdf" ELSE ext

\* a variant that compares the extension as it is written
IsPdfNameCaseSensitive(name) == name.ext = ".pdf"

\* uploaded_file.name.lower().endswith('.pdf')
IsPdfName(name) == Lower(name.ext) = ".pdf"

\* a variant that numbers the chunks of a file from 1
FileChunkRecordsFromOne(f, idx, t, cs) ==
    [i \in 1..Len(cs) |->
        [filename |-> f.name, chunk_index |-> i, text |-> cs[i],
         file_index |-> idx, original_text_length |-> Len(t)]]

\* the chunk records of one file
FileChunkRecords(f, idx, t, cs) ==
    [i \in 1..Len(cs) |->
        [filename |-> f.name, chunk_index |-> i - 1, text |-> cs[i],
         file_index |-> idx, original_text_length |-> Len(t)]]

Failed(f, why) == [filename |-> f.name, status |-> "failed", reason |-> why]

\* one pass of the for loop for file f at position idx: the chunk records it
\* appends to all_chunks and the entry it appends to processing_results
FileOutcome(f, idx) ==
    IF ~IsPdfName(f.name)
    THEN [chunks |-> << >>,
          result |-> [filename |-> f.name, status |-> "skipped", reason |-> "Not a PDF file"]]
    ELSE IF f.size = 0
    THEN [chunks |-> << >>, result |-> Failed(f, "Empty file")]
    ELSE LET t == ExtractTextFromPdf(f)
             cs == ChunkText(t, DefaultChunkSize, DefaultOverlap)
         IN  IF t = << >> \/ Len(Strip(t)) = 0
             THEN [chunks |-> << >>, result |-> Failed(f, "No text content found")]
             ELSE IF cs = << >>
             THEN [chunks |-> << >>, result |-> Failed(f, "Could not create text chunks")]
             ELSE [chunks |-> FileChunkRecords(f, idx, t, cs),
                   result |-> [filename |-> f.name, status |-> "success",
                               chunks_created |-> Len(cs), text_length |-> Len(t)]]

\* a variant that starts all_chunks again after a file that gave no chunks
AllChunksRestarted(acc, new) == IF new = << >> THEN << >> ELSE acc \o new

\* all_chunks.append(chunk_data), for each chunk of the file
AllChunksAfter(acc, new) == acc \o new

\* process_uploaded_pdfs(files) is called
ProcessCall(files) ==
    /\ bpc = "idle"
    /\ UNCHANGED <<retrieverVars, textVars, extractVars, sessionVars>>
    /\ uploaded_files' = files
    /\ file_idx' = 0
    /\ all_chunks' = << >>
    /\ processing_results' = << >>
    /\ bpc' = "loop"
    /\ UNCHANGED returned

\* one pass of the for loop
ProcessFile ==
    /\ bpc = "loop"
    /\ file_idx < Len(uploaded_files)
    /\ UNCHANGED <<retrieverVars, textVars, extractVars, sessionVars>>
    /\ LET out == FileOutcome(uploaded_files[file_idx + 1], file_idx)
       IN  /\ all_chunks' = AllChunksAfter(all_chunks, out.chunks)
           /\ processing_results' = Append(processing_results, out.result)
    /\ file_idx' = file_idx + 1
    /\ UNCHANGED <<uploaded_files, returned, bpc>>

\* after the loop: the summary is logged; return all_chunks
ProcessReturn ==
    /\ bpc = "loop"
    /\ file_idx = Len(uploaded_files)
    /\ UNCHANGED <<retrieverVars, textVars, extractVars, sessionVars>>
    /\ returned' = all_chunks
    /\ bpc' = "returned"
    /\ UNCHANGED <<uploaded_files, file_idx, all_chunks, processing_results>>

NextBatch ==
    \/ \E files \in Batches : ProcessCall(files)
    \/ ProcessFile
    \/ ProcessReturn

SpecBatch == Init /\ [][NextBatch]_vars

(***************************************************************************)
(* format_retrieved_chunks.  The string returned is held as its lines: a   *)
(* part is "Context {i}:", "[Source: {filename}, Section {n}]" and the     *)
(* chunk's text, each ended by a line break, and the parts are joined by   *)
(* one more line break, which leaves an empty line between two parts.      *)
(***************************************************************************)
\* formatted_part for the chunk at position i of enumerate(chunks, 1)
FormattedPart(i, chunk) ==
    <<[kind |-> "context", number |-> i],
      [kind |-> "source", filename |-> chunk.filename, number |-> chunk.chunk_index + 1],
      [kind |-> "text", text |-> chunk.text]>>

EmptyLine == [kind |-> "empty"]

FormatRetrievedChunks(cs) ==
    IF cs = << >> THEN << >>
    ELSE JoinWith(<<EmptyLine>>, [i \in 1..Len(cs) |-> FormattedPart(i, cs[i])])

\* the ways a caller picks results out of a list of n: some of the positions,
\* each once, in some order
Selections(n) ==
    {sel \in UNION {[1..m -> 1..n] : m \in 0..n} :
        \A i, j \in 1..Len(sel) : sel[i] = sel[j] => i = j}

\* format_retrieved_chunks is called with results picked from the last query's
FormatRetrievedChunksCall(sel) ==
    /\ UNCHANGED <<pdfVars, sessionVars>>
    /\ ret.op = "retrieve_relevant_chunks"
    /\ \A i \in 1..Len(sel) : sel[i] <= Len(ret.results)
    /\ UNCHANGED <<chunks, embeddings, index, pc, req, loc, pre, ok>>
    /\ LET arg == [i \in 1..Len(sel) |-> ret.results[sel[i]]]
       IN  ret' = [NoRet EXCEPT !.op = "format_retrieved_chunks",
                                !.results = arg,
                                !.context = FormatRetrievedChunks(arg)]

NextFormat ==
    \/ \E c \in ChunkLists, f \in BOOLEAN : InitializeRetrievalSystem(c, f)
    \/ \E q \in QueryTexts, k \in 1..MaxChunks, f \in BOOLEAN :
           RetrieveRelevantChunks(q, k, f)
    \/ \E sel \in Selections(MaxChunks) : FormatRetrievedChunksCall(sel)

SpecFormat == Init /\ [][NextFormat]_vars

(***************************************************************************)
(* The Streamlit session: the handlers that ingest into the retriever and  *)
(* the ones that query it.  The retriever's self.chunks is the list object *)
(* it was given (self.chunks = chunks), which the session also keeps as    *)
(* st.session_state.chunks.  A session runs one handler at a time; the     *)
(* sessions followed are those that process their batch of PDFs first.     *)
(***************************************************************************)
\* the most chunks the session list is let grow to
MaxSessionChunks == 4

\* the chunk list the image page adds: create_text_chunks is imported from
\* pdf_processing, which has no definition of it, so the list is an input
ImageChunk == [filename |-> [stem |-> "Image Extraction", ext |-> ""], chunk_index |-> 0,
               text |-> <<"b">>, file_index |-> 0, original_text_length |-> 1]

ImageChunkLists == {<<ImageChunk>>}

\* the batches uploaded in a session: fewer than MaxFiles files, each a file
\* that gives no chunks, a scanned PDF or a PDF with text
SessionFiles == {NotPdfFile, ScannedFile, GoodFile, GoodUpperFile}

SessionBatches ==
    {files \in Batches :
        Len(files) < MaxFiles /\ \A i \in 1..Len(files) : files[i] \in SessionFiles}

\* the top_k the question handlers pass
SessionTopK == 3

\* "Process PDFs": chunks = process_uploaded_pdfs(uploaded_files); if chunks:
\* st.session_state.chunks = chunks; ... retriever = initialize_retrieval_system(chunks)
ProcessPdfsHandler(fails) ==
    /\ bpc = "returned"
    /\ returned # << >>
    /\ pc[1] = "idle"
    /\ UNCHANGED pdfVars
    /\ session_chunks' = returned
    /\ aliased' = ~fails
    /\ InitializeRetriever(returned, fails)

\* self.chunks after st.session_state.chunks.extend(more)
ExtendedInPlace(more) == IF aliased THEN chunks \o more ELSE chunks

\* "Save to Document Database": st.session_state.chunks.extend(chunks), then
\* retriever = initialize_retrieval_system(st.session_state.chunks)
SaveToDocumentDatabase(more, fails) ==
    /\ bpc = "returned"
    /\ Len(session_chunks) + Len(more) <= MaxSessionChunks
    /\ pc[1] = "idle"
    /\ UNCHANGED pdfVars
    /\ session_chunks' = session_chunks \o more
    /\ IF fails
       THEN /\ chunks' = ExtendedInPlace(more)
            /\ UNCHANGED <<embeddings, index, pc, req, loc, pre, ok, aliased>>
            /\ ret' = [NoRet EXCEPT !.op = "initialize_retrieval_system", !.raised = TRUE]
       ELSE /\ aliased' = TRUE
            /\ InitializeRetriever(session_chunks \o more, FALSE)

\* the question handlers: st.session_state.retriever.retrieve_relevant_chunks(...)
AskQuestion(q, fails) ==
    /\ bpc = "returned"
    /\ ok[1]
    /\ RetrieveRelevantChunks(q, SessionTopK, fails)

NextSession ==
    \/ \E files \in SessionBatches : ProcessCall(files)
    \/ ProcessFile
    \/ ProcessReturn
    \/ \E f \in BOOLEAN : ProcessPdfsHandler(f)
    \/ \E more \in ImageChunkLists, f \in BOOLEAN : SaveToDocumentDatabase(more, f)
    \/ \E q \in QueryTexts, f \in BOOLEAN : AskQuestion(q, f)

SpecSession == Init /\ [][NextSession]_vars

(***************************************************************************)
(* Properties.                                                             *)
(***************************************************************************)
IsQuery == ret.op = "retrieve_relevant_chunks"

\* a query string with nothing but whitespace in it
Blank(q) == \A i \in 1..Len(q) : q[i] = Space

\* an ingest of a non-empty list by caller 1 has just run to its end
IngestDone == ret.ingest /\ ~ret.raised /\ req[1] # << >>

InFlight == {"encoding", "created", "adding"}

\* C1: when the embedding step of an ingest raises, the retriever's chunk list,
\* embeddings and index are what they were before the call.
C1_FailedIngestKeepsState ==
    [][(ret'.op = "create_embeddings" /\ ret'.raised)
         => (chunks' = chunks /\ embeddings' = embeddings /\ index' = index)]_vars

C3_ReadersSeeWholePair ==
    \A w \in Callers : \A v \in Callers \ {w} :
        (/\ IsQuery /\ ret.encodeCalls = 1 /\ ~ret.failed
         /\ pc[w] \in InFlight /\ pre[w] = "ready" /\ req[w] # << >>) =>
            \/ chunks = req[v] /\ index.rows = RowsFor(req[v])
            \/ chunks = req[w] /\ index.rows = RowsFor(req[w])

\* C4: when two overlapping ingests of different lists have both run to their
\* end, the chunk list, the embeddings and the index come from the same call.
C4_OverlapEndsWithOneCall ==
    (\A w \in Callers : pc[w] = "done" /\ ok[w] /\ req[w] # << >>) =>
        \E w \in Callers :
            /\ chunks = req[w]
            /\ embeddings.rows = RowsFor(req[w])
            /\ index.rows = RowsFor(req[w])

\* C5: a query returns min(top_k, total_chunks) results when its text is not
\* blank and the retriever has an index and chunks, and no result otherwise.
C5_TopKBound ==
    IsQuery =>
        Len(ret.results) =
            IF ~Blank(ret.query) /\ index.built /\ chunks # << >>
            THEN Min(ret.top_k, Len(chunks))
            ELSE 0

\* C6: in the list a query returns, similarity_score does not decrease as rank
\* increases.
C6_RankOrdering ==
    IsQuery =>
        \A i, j \in 1..Len(ret.results) :
            ret.results[i].rank < ret.results[j].rank
                => ret.results[i].similarity_score <= ret.results[j].similarity_score

\* C6 witness: a query returned two results whose order by distance is not the
\* order of their rows.
C6_Witness ==
    /\ IsQuery
    /\ Len(ret.results) >= 2
    /\ ret.results[1].chunk_index > ret.results[2].chunk_index
    /\ ret.results[1].similarity_score < ret.results[2].similarity_score

\* C7: the rank of every result is its 1-based position in the returned list.
C7_RankIsPosition ==
    IsQuery => \A i \in 1..Len(ret.results) : ret.results[i].rank = i

\* C8: a query makes no embedding call when its text is blank or the retriever
\* has no index or no chunks, and then returns the empty list; otherwise it
\* makes exactly one, however many chunks there are.
C8_EmbedderCalls ==
    IsQuery =>
        /\ ret.encodeCalls =
              IF Blank(ret.query) \/ ~index.built \/ chunks = << >> THEN 0 ELSE 1
        /\ (ret.encodeCalls = 0 => ret.results = << >>)

\* C8 witness: a query with a leading blank made its one embedding call against
\* a retriever holding several chunks.
C8_Witness ==
    /\ IsQuery
    /\ ret.query = <<" ", "a">>
    /\ ret.encodeCalls = 1
    /\ Len(chunks) >= 2

\* C9: when the query's embedding or the index search fails, what the caller
\* receives differs from the empty list of an Empty retriever or an empty query.
C9_FailureIsDistinguished ==
    (IsQuery /\ ret.failed) => (ret.raised \/ ret.results # << >>)

IsReadOnlyCall == ret.op \in {"retrieve_relevant_chunks", "get_retrieval_stats"}

EmptyIngestDone == ret.ingest /\ ~ret.raised /\ req[1] = << >>

\* C12: after create_embeddings([]) followed by build_faiss_index, or after
\* initialize_retrieval_system([]), whatever the retriever held before, nothing
\* was raised and the retriever has no chunks and no index.
C12_EmptyIngestLeavesEmpty ==
    EmptyIngestDone => (chunks = << >> /\ ~index.built)

\* C13: after build_faiss_index was called with an empty embedding matrix,
\* whatever index was built before, every query returns the empty list.
C13_EmptyBuildReturnsNothing ==
    (ret.op = "build_faiss_index" /\ EmptyIngestDone) =>
        \A q \in QueryTexts, k \in 1..MaxK : Retrieved(chunks, index, q, k) = << >>

(***************************************************************************)
(* chunk_text.                                                             *)
(***************************************************************************)
\* the number of words of the text passed to chunk_text
W == Len(Split(text))

\* ceil(a / b) for b > 0
CeilDiv(a, b) == (a + b - 1) \div b

\* chunk_text has returned from a call with 0 <= overlap < chunk_size
ChunkedWithOverlapBelowSize == tpc = "returned" /\ overlap < chunk_size

\* C14 as stated: with 0 <= O < S, chunk_text returns ceil((W - O) / (S - O))
\* chunks when W > S and exactly 1 chunk otherwise, for every text.
C14_ChunkCount ==
    ChunkedWithOverlapBelowSize =>
        Len(text_chunks) =
            IF W > chunk_size
            THEN CeilDiv(W - overlap, chunk_size - overlap)
            ELSE 1

\* C14 amended: with 0 <= O < S, chunk_text returns ceil((W - O) / (S - O))
\* chunks when W > S, exactly 1 chunk when W <= S and the text is not the
\* empty string, and no chunk for the empty string.
C14_ChunkCountNonEmptyText ==
    ChunkedWithOverlapBelowSize =>
        Len(text_chunks) =
            IF W > chunk_size
            THEN CeilDiv(W - overlap, chunk_size - overlap)
            ELSE IF text # << >> THEN 1 ELSE 0

\* C14 witness: a text of more than S words was cut into three or more
\* overlapping windows.
C14_Witness ==
    /\ ChunkedWithOverlapBelowSize
    /\ overlap >= 1
    /\ W > chunk_size
    /\ Len(text_chunks) >= 3

\* C15: with overlap >= chunk_size >= 1, each window after the first starts
\* where the window before it ended, so no start position is taken twice (and
\* the loop ends).
C15_DegenerateOverlapAdvances ==
    (overlap >= chunk_size) =>
        /\ \A i \in 1..(Len(starts) - 1) :
              starts[i + 1] = WindowEnd(starts[i], chunk_size, words)
        /\ \A i, j \in 1..Len(starts) : i < j => starts[i] # starts[j]

\* the windows of a text of more than S words, with overlap < S, are as C16
\* describes, as far as the loop has got
WindowStructure ==
    (tpc \in {"loop", "returned"} /\ overlap < chunk_size /\ W > chunk_size) =>
        LET n == Len(starts)
            last(i) == Min(starts[i] + chunk_size, W)
        IN  /\ Len(text_chunks) = n
            /\ \A i \in 1..n : starts[i] = (i - 1) * (chunk_size - overlap)
            /\ \A i \in 1..n :
                  text_chunks[i] = JoinWith(<<Space>>, SubSeq(Split(text), starts[i] + 1, last(i)))
            /\ \A i \in 1..(n - 1) : Len(Split(text_chunks[i])) = chunk_size
            /\ tpc = "returned" =>
                  /\ n >= 1
                  /\ last(n) = W
                  /\ Len(Split(text_chunks[n])) \in 1..chunk_size

\* C16: for a text of W > S words and overlap O < S the windows start at 0,
\* S-O, 2(S-O), ..., all but the last hold S words, the last holds 1..S words
\* and ends at the last word, each is its words joined by single blanks, and
\* the call returns.
C16_WindowStructure ==
    /\ []WindowStructure
    /\ (tpc = "call" /\ overlap < chunk_size) ~> (tpc = "returned")

\* C16 witness: size - 1 words of overlap: a call with overlap = chunk_size - 1
\* on a text of twice as many words as chunk_size or more has returned.
C16_Witness ==
    /\ tpc = "returned"
    /\ chunk_size >= 2 /\ overlap = chunk_size - 1
    /\ W >= 2 * chunk_size
    /\ Len(starts) = W - chunk_size + 1

\* C17: chunk_text returns the empty list for the empty text, and every chunk
\* it returns, for whatever text, holds at least one word.
C17_ChunksHoldWords ==
    (tpc = "returned") =>
        /\ (text = << >> => text_chunks = << >>)
        /\ \A i \in 1..Len(text_chunks) : Split(text_chunks[i]) # << >>

(***************************************************************************)
(* process_uploaded_pdfs.                                                  *)
(***************************************************************************)
\* the status entries among the records of a returned list
StatusEntries(v) == SelectSeq(v, LAMBDA r : "status" \in DOMAIN r)

\* C18: the value process_uploaded_pdfs returns holds one status entry per
\* input file, in input order, beside the chunks.
C18_StatusPerFile ==
    (bpc = "returned") =>
        /\ Len(StatusEntries(returned)) = Len(uploaded_files)
        /\ \A i \in 1..Len(StatusEntries(returned)) :
              StatusEntries(returned)[i].filename = uploaded_files[i].name

\* the chunk records file number i of the batch has in the returned list
ChunksOfFile(i) == SelectSeq(returned, LAMBDA c : c.file_index = i - 1)

\* chunk records without their file_index
WithoutFileIndex(cs) ==
    [j \in 1..Len(cs) |->
        [filename |-> cs[j].filename, chunk_index |-> cs[j].chunk_index,
         text |-> cs[j].text, original_text_length |-> cs[j].original_text_length]]

\* C19: the chunks and the status a batch produces for a file are, apart from
\* file_index, those the file produces when it is processed alone, whatever
\* files come before and after it, skipped or failed ones included.
C19_PartialFailureIsolation ==
    (bpc = "returned") =>
        /\ Len(processing_results) = Len(uploaded_files)
        /\ \A i \in 1..Len(uploaded_files) :
              /\ processing_results[i] = FileOutcome(uploaded_files[i], 0).result
              /\ WithoutFileIndex(ChunksOfFile(i))
                    = WithoutFileIndex(FileOutcome(uploaded_files[i], 0).chunks)

\* C19 witness: the batch good, zero-byte, good was processed: success, failed
\* with 'Empty file', success, and chunks of the first and of the third file.
C19_Witness ==
    /\ bpc = "returned"
    /\ uploaded_files = <<GoodFile, ZeroByteFile, GoodUpperFile>>
    /\ processing_results[1].status = "success"
    /\ processing_results[1].chunks_created > 0
    /\ processing_results[2] = Failed(ZeroByteFile, "Empty file")
    /\ processing_results[3].status = "success"
    /\ processing_results[3].chunks_created > 0
    /\ ChunksOfFile(1) # << >> /\ ChunksOfFile(2) = << >> /\ ChunksOfFile(3) # << >>

\* a PDF that opens and of which no page has text after the three extraction
\* methods and cleaning
IsScanned(f) ==
    /\ IsPdfName(f.name) /\ f.size > 0 /\ f.opens
    /\ f.pages # << >>
    /\ \A p \in 1..Len(f.pages) : PageContent(f.pages[p]) = << >>

\* C20: a scanned PDF gets status 'failed' with reason 'No text content found'
\* and adds no chunk to the returned list.
C20_ScannedPdfFails ==
    (bpc = "returned") =>
        \A i \in 1..Len(uploaded_files) :
            IsScanned(uploaded_files[i]) =>
                /\ processing_results[i] = Failed(uploaded_files[i], "No text content found")
                /\ ChunksOfFile(i) = << >>

\* C21: a file whose name does not end in .pdf (whatever the case) is
\* 'skipped'; a zero-byte or unparseable PDF is 'failed' with a reason; every
\* other file is 'success' and reports as chunks_created the number of chunks
\* it has in the returned list; only 'success' files have chunks there.
C21_StatusClassification ==
    (bpc = "returned") =>
        /\ Len(processing_results) = Len(uploaded_files)
        /\ \A i \in 1..Len(uploaded_files) :
              LET f == uploaded_files[i]
                  r == processing_results[i]
              IN  /\ r.filename = f.name
                  /\ IF f.name.ext \notin {".pdf", ".PDF"}
                     THEN r.status = "skipped"
                     ELSE IF f.size = 0 \/ ~f.opens
                     THEN r.status = "failed" /\ r.reason \in {"Empty file", "No text content found"}
                     ELSE r.status = "success" /\ r.chunks_created = Len(ChunksOfFile(i))
                  /\ (r.status # "success" => ChunksOfFile(i) = << >>)
                  /\ (r.status = "success" => ChunksOfFile(i) # << >>)

\* C21 witness: a batch with a skipped file, a failed zero-byte file, a failed
\* unparseable file and a successful file with an upper-case extension.
C21_Witness ==
    /\ bpc = "returned"
    /\ \E i, j, k \in 1..Len(uploaded_files) :
          /\ processing_results[i].status = "skipped"
          /\ uploaded_files[j] = UnparseableFile /\ processing_results[j].status = "failed"
          /\ uploaded_files[k] = GoodUpperFile /\ processing_results[k].chunks_created >= 1

\* C22: in the list one process_uploaded_pdfs call returns no two chunk
\* records have the same filename and the same chunk_index, also when two
\* files of the batch carry the same name.
C22_ChunkIdentityUnique ==
    (bpc = "returned") =>
        \A i, j \in 1..Len(returned) :
            (returned[i].filename = returned[j].filename
                /\ returned[i].chunk_index = returned[j].chunk_index) => i = j

\* the chunks chunk_text makes of the text extracted from the file at position fi
SourceChunks(fi) ==
    ChunkText(ExtractTextFromPdf(uploaded_files[fi + 1]), DefaultChunkSize, DefaultOverlap)

\* record r is the chunk at position r.chunk_index of its source document
AtSourcePosition(r) ==
    /\ r.file_index + 1 \in 1..Len(uploaded_files)
    /\ r.filename = uploaded_files[r.file_index + 1].name
    /\ r.chunk_index + 1 \in 1..Len(SourceChunks(r.file_index))
    /\ r.text = SourceChunks(r.file_index)[r.chunk_index + 1]

\* the number of records before position p that come from the same file
EarlierOfSameFile(cs, p) ==
    Cardinality({j \in 1..(p - 1) : cs[j].file_index = cs[p].file_index})

\* the "Process PDFs" handler has just ingested the list process_uploaded_pdfs returned
PdfsJustIngested ==
    ret.op = "initialize_retrieval_system" /\ ret.ingest /\ session_chunks = returned

IsBlankText(t) == Strip(t) = << >>

Called(methods, m) == \E i \in 1..Len(methods) : methods[i] = m

\* the dict method was called only after a blank text layer, and the blocks
\* method only after a blank text layer and a blank dict text
CalledInOrder(methods, page) ==
    /\ Called(methods, "dict") => IsBlankText(page.text)
    /\ Called(methods, "blocks") => IsBlankText(page.text) /\ IsBlankText(page.dict)

\* t is what the first method, in the order text, dict, blocks, that gives text gives
IsFirstNonEmpty(t, page) ==
    /\ ~IsBlankText(page.text) => t = page.text
    /\ (IsBlankText(page.text) /\ ~IsBlankText(page.dict)) => t = page.dict
    /\ (IsBlankText(page.text) /\ IsBlankText(page.dict)) => t = page.blocks

\* the pages of the log that are left with text after cleaning
KeptPages == SelectSeq(pages_log, LAMBDA l : ~IsBlankText(l.text) /\ CleanText(l.text) # << >>)

\* C24: for every page the dict method is called only if the text layer gave
\* nothing but whitespace and the blocks method only if the dict method gave
\* nothing either; the page's text is that of the first method, in that order,
\* that is not empty; pages with no text, before or after cleaning, are left
\* out, and the others are joined in page order.
C24_PageStrategyOrder ==
    /\ (epc = "page" /\ tried # << >>) =>
           CalledInOrder(tried, pdf_file.pages[page_num + 1])
    /\ \A p \in 1..Len(pages_log) :
           /\ CalledInOrder(pages_log[p].methods, pdf_file.pages[p])
           /\ IsFirstNonEmpty(pages_log[p].text, pdf_file.pages[p])
    /\ (epc = "returned" /\ pdf_file.size > 0 /\ pdf_file.opens) =>
           /\ Len(pages_log) = Len(pdf_file.pages)
           /\ text_content = [i \in 1..Len(KeptPages) |-> CleanText(KeptPages[i].text)]
           /\ text_content # << >> =>
                  extracted = JoinWith(<<Newline, Newline>>, text_content)
           /\ extracted = ExtractTextFromPdf(pdf_file)

\* C24 witness: a document whose three pages took one, two and three methods,
\* one of them left out for want of text
C24_Witness ==
    /\ epc = "returned"
    /\ Len(pages_log) = 3
    /\ \A n \in 1..3 : \E p \in 1..3 : Len(pages_log[p].methods) = n
    /\ Len(text_content) = 2

(***************************************************************************)
(* format_retrieved_chunks.                                                *)
(***************************************************************************)
\* C25: format_retrieved_chunks renders one block per result in input order,
\* the number of a block's Context label is the result's rank and its Section
\* number is chunk_index + 1, for every list passed in, a part or a reordering
\* of a query's output included; an empty list renders as the empty string.
C25_ContextLabelIsRank ==
    (ret.op = "format_retrieved_chunks") =>
        /\ ret.results = << >> => ret.context = << >>
        /\ ret.results # << >> => Len(ret.context) = 4 * Len(ret.results) - 1
        /\ \A i \in 1..Len(ret.results) :
               LET at == 4 * (i - 1)
               IN  /\ ret.context[at + 1].kind = "context"
                   /\ ret.context[at + 1].number = ret.results[i].rank
                   /\ ret.context[at + 2].kind = "source"
                   /\ ret.context[at + 2].filename = ret.results[i].filename
                   /\ ret.context[at + 2].number = ret.results[i].chunk_index + 1
                   /\ ret.context[at + 3].kind = "text"
                   /\ ret.context[at + 3].text = ret.results[i].text

(***************************************************************************)
(* build_faiss_index, retrieve_relevant_chunks and the chunk list.         *)
(***************************************************************************)
\* C26: a build_faiss_index call that raises nothing was asked to index some
\* vectors and leaves the index holding exactly those; a call given no
\* embeddings or an empty matrix does not return as if it had succeeded.
C26_BuildFailureRaises ==
    [][(ret'.op = "build_faiss_index" /\ ~ret'.raised) =>
           /\ ~NoEmbeddingsAvailable(BuildArg(1))
           /\ index'.built
           /\ index'.rows = BuildArg(1).rows]_vars

\* result r is the chunk stored at row p, at the distance of row p from the query
FromRow(r, p) ==
    /\ p <= Len(chunks)
    /\ r.filename = chunks[p].filename
    /\ r.chunk_index = chunks[p].chunk_index
    /\ r.text = chunks[p].text
    /\ r.similarity_score = L2(index.rows[p], EncodeText(ret.query))

\* C27: every result of a query is the chunk stored at a row the index holds
\* (none comes from the row id -1 of a missing neighbour), and no two results
\* of one query are the same stored chunk.
C27_ResultsFromIndexRows ==
    (IsQuery /\ ~ret.failed) =>
        /\ \A i \in 1..Len(ret.results) :
               \E p \in 1..Len(index.rows) : FromRow(ret.results[i], p)
        /\ \A i, j \in 1..Len(ret.results) :
               (ret.results[i].filename = ret.results[j].filename
                   /\ ret.results[i].chunk_index = ret.results[j].chunk_index) => i = j

\* every chunk is indexed at its own row
Ready == chunks # << >> /\ index.built /\ index.rows = RowsFor(chunks)

\* C28: the chunk list of a Ready retriever is a snapshot: a step of the session
\* that is not a successful ingest, the session appending to the list it passed
\* included, leaves self.chunks and its length relative to the index as they were.
C28_ChunkListIsSnapshot ==
    [][(Ready /\ ~(ret'.op = "initialize_retrieval_system" /\ ret'.ingest)) =>
           chunks' = chunks /\ Len(chunks') = Len(index'.rows)]_vars

ResultKeys == {"similarity_score", "rank"}

\* C29: retrieve_relevant_chunks and get_retrieval_stats leave the retriever as
\* it was: the chunk list, every stored chunk record (none gains a
\* similarity_score or rank key), the embeddings and the index; the results
\* carry the two keys on copies of the stored chunks.
C29_ReadOnlyCallsLeaveRetriever ==
    [][IsReadOnlyCall' =>
          /\ Len(chunks') = Len(chunks)
          /\ \A p \in 1..Len(chunks) :
                 /\ DOMAIN chunks'[p] = DOMAIN chunks[p]
                 /\ DOMAIN chunks'[p] \cap ResultKeys = {}
          /\ chunks' = chunks
          /\ embeddings' = embeddings
          /\ index' = index
          /\ IsQuery' =>
                 \A i \in 1..Len(ret'.results) : ResultKeys \subseteq DOMAIN ret'.results[i]]_vars

\* C29 witness: a query returned a result that carries a rank and a score, and
\* the stored chunks carry neither
C29_Witness ==
    /\ IsQuery /\ ~ret.failed
    /\ Len(ret.results) >= 1
    /\ ResultKeys \subseteq DOMAIN ret.results[1]
    /\ Len(chunks) >= 2
    /\ \A p \in 1..Len(chunks) : DOMAIN chunks[p] \cap ResultKeys = {}

(***************************************************************************)
(* chunk_text: coverage.                                                   *)
(***************************************************************************)
\* the words of chunk i of the list returned
ChunkWords(i) == Split(text_chunks[i])

\* the set of the words of a sequence of words
WordSet(ws) == {ws[j] : j \in 1..Len(ws)}

\* C30: for overlap O < S and a text of W > S words, every word of the text is
\* in some chunk, the words of a chunk are consecutive words of the text in
\* their order, and two consecutive chunks share exactly O words: the last O
\* words of the one are the first O words of the next.
C30_ChunkerCoverage ==
    (tpc = "returned" /\ overlap < chunk_size /\ W > chunk_size) =>
        LET n == Len(text_chunks)
            ws == Split(text)
        IN  /\ \A pos \in 1..W :
                   \E i \in 1..n : \E j \in 1..Len(ChunkWords(i)) :
                       /\ ChunkWords(i)[j] = ws[pos]
                       /\ pos - j + Len(ChunkWords(i)) <= W
                       /\ ChunkWords(i) = SubSeq(ws, pos - j + 1, pos - j + Len(ChunkWords(i)))
            /\ \A i \in 1..n :
                   \E st \in 0..(W - 1) :
                       ChunkWords(i) = SubSeq(ws, st + 1, st + Len(ChunkWords(i)))
            /\ \A i \in 1..(n - 1) :
                   LET a == ChunkWords(i)
                       b == ChunkWords(i + 1)
                   IN  /\ Len(a) >= overlap /\ Len(b) >= overlap
                       /\ SubSeq(a, Len(a) - overlap + 1, Len(a)) = SubSeq(b, 1, overlap)
                       /\ Cardinality(WordSet(a) \cap WordSet(b)) = overlap

\* C30 witness: a call with 0 < O < S on a text of more than S words returned
\* three chunks or more, the last one shorter than S words
C30_Witness ==
    /\ tpc = "returned"
    /\ overlap >= 1 /\ overlap < chunk_size /\ W > chunk_size
    /\ Len(text_chunks) >= 3
    /\ Len(ChunkWords(Len(text_chunks))) < chunk_size
====
